---------------------------- MODULE Spec2Model ----------------------------
(***************************************************************************)
(* A model of src/spyware_detector.py: the signature database loaded at    *)
(* import, the result list control, the UI thread's handlers (on_scan,     *)
(* on_remove), the scan and uninstall worker threads, the wx.CallAfter     *)
(* queue and the attached device.                                          *)
(*                                                                         *)
(* Strings that the code takes apart are sequences of tokens: the line     *)
(* "package:com.safe.app" is <<"package:", "com.safe.app">>, and the text  *)
(* printed by the device separates its lines with the token "\n".          *)
(* List indices are the code's: 0-based, -1 for "none".                    *)
(***************************************************************************)
EXTENDS Integers, Sequences, FiniteSets, TLC

\* ------------------------------------------------------------------------
\* Bounds of the model
\* ------------------------------------------------------------------------
\* on_scan runs at most this many times (button presses and refreshes).
MaxScans == 2
\* At most this many removal batches are confirmed.
MaxRemovals == 1
\* At most this many worker threads run at a time; an on_remove that is
\* under way counts as the thread it may start.
MaxThreads == 2

\* ------------------------------------------------------------------------
\* Values
\* ------------------------------------------------------------------------
Evil == <<"com.evil.tracker">>
Safe == <<"com.safe.app">>
\* The package identifiers of the model.
Pkgs == {Evil, Safe}
\* The description strings a signature file may give.
Descs == {"", "Tracker X"}
\* Python's None (dict.get on a missing key).
None == "<None>"
Whitespace == {"\n", " "}
Marker == <<"package:">>
Suspicious == "Suspicious"
Clean == "Clean"
Pink == "255,230,230"
DefaultColour == "default"
YES == "YES"
NO == "NO"

EmptyDb == [p \in {} |-> ""]
\* The JSON objects of the model: Evil listed, with or without a description.
Stores == {[p \in {Evil} |-> d] : d \in Descs}
\* The states of the backing file spyware_signatures.json.
SigFiles ==
  {[kind |-> k, db |-> EmptyDb] : k \in {"absent", "unreadable", "malformed"}}
    \cup {[kind |-> "object", db |-> d] : d \in Stores}
\* The device's installed third-party packages at the start, in its
\* enumeration order.
InstalledAtStart == <<Evil, Safe>>

\* Python truthiness of the value SIG_DB.get returns.
Truthy(v) == v \notin {None, ""}

\* x or y
PyOr(x, y) == IF Truthy(x) THEN x ELSE y

\* dict.get(key)
DictGet(d, key) == IF key \in DOMAIN d THEN d[key] ELSE None

\* str.removeprefix(prefix)
removeprefix(s, prefix) ==
  IF Len(s) >= Len(prefix) /\ SubSeq(s, 1, Len(prefix)) = prefix
    THEN SubSeq(s, Len(prefix) + 1, Len(s))
    ELSE s

\* The length of the longest whitespace-free prefix of s.
RECURSIVE WordLen(_)
WordLen(s) ==
  IF s = <<>> \/ Head(s) \in Whitespace THEN 0 ELSE 1 + WordLen(Tail(s))

\* str.split(): the maximal whitespace-free runs of s, in order.
RECURSIVE split(_)
split(s) ==
  IF s = <<>> THEN <<>>
  ELSE IF Head(s) \in Whitespace THEN split(Tail(s))
  ELSE <<SubSeq(s, 1, WordLen(s))>> \o split(SubSeq(s, WordLen(s) + 1, Len(s)))

\* ------------------------------------------------------------------------
\* The device and the adb wrapper
\* ------------------------------------------------------------------------
ListArgs == <<"shell", "pm", "list", "packages", "-3">>
UninstallArgs(p) == <<"shell", "pm", "uninstall", "--user", "0">> \o p
NoCmd == <<>>

\* What `pm list packages -3` prints: one marked line per installed package.
RECURSIVE PmListOutput(_)
PmListOutput(inst) ==
  IF inst = <<>> THEN <<>>
  ELSE Marker \o Head(inst) \o <<"\n">> \o PmListOutput(Tail(inst))

\* The installed list without package p.
RECURSIVE Without(_, _)
Without(inst, p) ==
  IF inst = <<>> THEN <<>>
  ELSE IF Head(inst) = p THEN Without(Tail(inst), p)
  ELSE <<Head(inst)>> \o Without(Tail(inst), p)

Range(s) == {s[i] : i \in 1..Len(s)}

\* adb(*args): the completed command. ok says whether the channel carried
\* the command; a command that fails prints nothing and exits non-zero.
adb(args, inst, ok) ==
  IF ~ok THEN [returncode |-> 1, stdout |-> <<>>, installed |-> inst]
  ELSE IF args = ListArgs
    THEN [returncode |-> 0, stdout |-> PmListOutput(inst), installed |-> inst]
  ELSE LET p == SubSeq(args, 6, Len(args)) IN
    IF p \in Range(inst)
      THEN [returncode |-> 0, stdout |-> <<"Success">>,
            installed |-> Without(inst, p)]
      ELSE [returncode |-> 1, stdout |-> <<"Failure">>, installed |-> inst]

\* What get_phone() may return: the device comes and goes on its own, so
\* each call may find it or not.
get_phone == BOOLEAN

\* ------------------------------------------------------------------------
\* State
\* ------------------------------------------------------------------------
VARIABLES
  sig_file,   \* the backing file beside the module
  module,     \* the import of the module: "importing", "loaded", "crashed"
  SIG_DB,     \* the module-level signature mapping
  installed,  \* the device's installed third-party packages
  listctrl,   \* the rows of the result list control
  ui,         \* the UI thread: its position in on_remove, and its locals
  pending,    \* the events wx.CallAfter has queued for the UI thread
  shown,      \* the number of error message boxes displayed
  scans,      \* the scan worker threads, in the order they were started
  removals    \* the uninstall worker threads, in the order they were started

vars == <<sig_file, module, SIG_DB, installed, listctrl, ui, pending,
          shown, scans, removals>>

Idle == [pc |-> "idle", sel |-> <<>>, idx |-> -1, answer |-> ""]

\* A row of the list control right after InsertItem(index, label).
\* `written` records the columns SetItem has been called on for the row.
NewRow(label) ==
  [text |-> label, status |-> "", detect |-> "", colour |-> DefaultColour,
   selected |-> FALSE, written |-> {}]

\* The argument of on_scan when the Scan button calls it (a wx event);
\* the refresh after a removal calls on_scan(None).
ButtonEvent == "wx.EVT_BUTTON"

\* A scan worker thread as Thread(target=self._worker_scan).start() leaves
\* it. `evt` is the argument on_scan was called with; `before` remembers
\* the rows on display when the scan was requested, until the worker ends;
\* `rc` is the exit code of the enumeration; `issued` lists the device
\* commands the thread issued.
NewScan(evt, before) ==
  [pc |-> "get_phone", phone |-> FALSE, pkgs |-> <<>>, k |-> 0, pkg |-> <<>>,
   detect |-> None, status_str |-> "", count |-> 0, idx |-> -1,
   cmd |-> NoCmd, rc |-> 0, issued |-> <<>>, before |-> before, evt |-> evt]

\* An uninstall worker thread as Thread(target=self._worker_uninstall,
\* args=(sel,)).start() leaves it. `outcomes` is what the worker keeps of
\* the results of its uninstalls.
NewRemoval(sel) ==
  [pc |-> "loop", pkgs |-> sel, i |-> 1, cmd |-> NoCmd, issued |-> <<>>,
   outcomes |-> <<>>]

\* ------------------------------------------------------------------------
\* Module import
\* ------------------------------------------------------------------------
\* load_signature_db(): the mapping, or "raise" when open or json.load raise.
load_signature_db(file) ==
  IF file.kind # "absent"
    THEN IF file.kind = "object"
           THEN [raised |-> FALSE, value |-> file.db]
           ELSE [raised |-> TRUE, value |-> EmptyDb]
    ELSE [raised |-> FALSE, value |-> EmptyDb]

Init ==
  /\ sig_file \in SigFiles
  /\ module = "importing"
  /\ SIG_DB = EmptyDb
  /\ installed = InstalledAtStart
  /\ listctrl = <<>>
  /\ ui = Idle
  /\ pending = <<>>
  /\ shown = 0
  /\ scans = <<>>
  /\ removals = <<>>

\* SIG_DB = load_signature_db(), at import; an exception ends the import.
ImportModule ==
  /\ module = "importing"
  /\ LET r == load_signature_db(sig_file) IN
       IF r.raised
         THEN module' = "crashed" /\ SIG_DB' = SIG_DB
         ELSE module' = "loaded" /\ SIG_DB' = r.value
  /\ UNCHANGED <<sig_file, installed, listctrl, ui, pending, shown,
                 scans, removals>>

\* ------------------------------------------------------------------------
\* The list control (wx.ListCtrl)
\* ------------------------------------------------------------------------
Min(a, b) == IF a <= b THEN a ELSE b

GetItemCount(rows) == Len(rows)

\* InsertItem(index, label): the new row goes in at index, or at the end
\* when index is past it; the rows below move down. Gives the rows and the
\* index of the new row.
InsertItem(rows, index, label) ==
  LET at == Min(index, Len(rows)) IN
    [rows |-> SubSeq(rows, 1, at) \o <<NewRow(label)>>
                \o SubSeq(rows, at + 1, Len(rows)),
     idx |-> at]

HasItem(rows, idx) == idx >= 0 /\ idx < Len(rows)

\* SetItem(idx, col, text), for the columns 1 (Status) and 2 (Detection).
SetItem(rows, idx, col, text) ==
  IF col = 1
    THEN [rows EXCEPT ![idx + 1].status = text, ![idx + 1].written = @ \cup {1}]
    ELSE [rows EXCEPT ![idx + 1].detect = text, ![idx + 1].written = @ \cup {2}]

SetItemBackgroundColour(rows, idx, colour) ==
  [rows EXCEPT ![idx + 1].colour = colour]

\* GetNextSelected(idx): the first selected row below idx, or -1.
\* GetFirstSelected() is GetNextSelected(-1).
GetNextSelected(rows, idx) ==
  LET later == {j \in 0..(Len(rows) - 1) : j > idx /\ rows[j + 1].selected}
  IN IF later = {} THEN -1 ELSE CHOOSE j \in later : \A m \in later : j <= m

GetItemText(rows, idx) == IF HasItem(rows, idx) THEN rows[idx + 1].text ELSE <<>>

DeleteAllItems == <<>>

\* ------------------------------------------------------------------------
\* on_scan, and the scan worker
\* ------------------------------------------------------------------------
Ended == {"done", "crashed"}

\* The worker threads running, and the one on_remove may be about to start.
Live ==
  Cardinality({t \in DOMAIN scans : scans[t].pc \notin Ended})
    + Cardinality({w \in DOMAIN removals : removals[w].pc \notin Ended})
    + (IF ui.pc = "idle" THEN 0 ELSE 1)

\* on_scan starting the worker without clearing the list.
on_scan_no_clear(evt) ==
  /\ Len(scans) < MaxScans
  /\ Live < MaxThreads
  /\ listctrl' = listctrl
  /\ scans' = Append(scans, NewScan(evt, listctrl))

\* The handler on_scan: clear the list, start a scan worker.
on_scan(evt) ==
  /\ Len(scans) < MaxScans
  /\ Live < MaxThreads
  /\ listctrl' = DeleteAllItems
  /\ scans' = Append(scans, NewScan(evt, listctrl))

\* The user presses Scan.
ClickScan ==
  /\ module = "loaded"
  /\ ui.pc = "idle"
  /\ on_scan(ButtonEvent)
  /\ UNCHANGED <<sig_file, module, SIG_DB, installed, ui, pending,
                 shown, removals>>

\* A scan worker that has ended (returned, or died of an exception): its
\* locals are gone, but for what get_phone() and the enumeration gave it.
ScanEnded(s, how) ==
  [NewScan(s.evt, <<>>) EXCEPT !.pc = how, !.phone = s.phone, !.rc = s.rc,
                               !.issued = s.issued, !.pkgs = s.pkgs]

\* worker_scan_get_phone with the `return` after the message box left out:
\* the worker reports the missing device and goes on to enumerate.
worker_scan_get_phone_no_return(t) ==
  /\ scans[t].pc = "get_phone"
  /\ \E phone \in get_phone :
       /\ scans' = [scans EXCEPT ![t].phone = phone, ![t].pc = "adb"]
       /\ pending' = IF phone THEN pending ELSE Append(pending, "MessageBox")
  /\ UNCHANGED <<sig_file, module, SIG_DB, installed, listctrl, ui,
                 shown, removals>>

\* phone = get_phone(); without one: CallAfter(MessageBox ...), return.
worker_scan_get_phone(t) ==
  /\ scans[t].pc = "get_phone"
  /\ \E phone \in get_phone :
       IF phone
         THEN /\ scans' = [scans EXCEPT ![t].phone = phone, ![t].pc = "adb"]
              /\ pending' = pending
         ELSE /\ scans' = [scans EXCEPT ![t] = ScanEnded(scans[t], "done")]
              /\ pending' = Append(pending, "MessageBox")
  /\ UNCHANGED <<sig_file, module, SIG_DB, installed, listctrl, ui,
                 shown, removals>>

\* worker_scan_adb_call sending an uninstall where the listing belongs.
worker_scan_adb_call_uninstall(t) ==
  /\ scans[t].pc = "adb"
  /\ scans' = [scans EXCEPT ![t].pc = "adb_wait",
                            ![t].cmd = UninstallArgs(Evil),
                            ![t].issued = Append(@, UninstallArgs(Evil))]
  /\ UNCHANGED <<sig_file, module, SIG_DB, installed, listctrl, ui,
                 pending, shown, removals>>

\* adb("shell", "pm", "list", "packages", "-3"): the command goes out.
worker_scan_adb_call(t) ==
  /\ scans[t].pc = "adb"
  /\ scans' = [scans EXCEPT ![t].pc = "adb_wait", ![t].cmd = ListArgs,
                            ![t].issued = Append(@, ListArgs)]
  /\ UNCHANGED <<sig_file, module, SIG_DB, installed, listctrl, ui,
                 pending, shown, removals>>

\* Whether the channel carries a command: the device may have gone by the
\* time the command is sent, whatever get_phone() said before.
ChannelOutcomes == BOOLEAN

\* ... the command completes: pkgs = adb(...).stdout.split()
worker_scan_adb_return(t) ==
  /\ scans[t].pc = "adb_wait"
  /\ \E ok \in ChannelOutcomes :
       LET r == adb(scans[t].cmd, installed, ok) IN
         /\ scans' = [scans EXCEPT ![t].pc = "loop", ![t].cmd = NoCmd,
                                   ![t].rc = r.returncode,
                                   ![t].pkgs = split(r.stdout), ![t].k = 1]
         /\ installed' = r.installed
  /\ UNCHANGED <<sig_file, module, SIG_DB, listctrl, ui, pending,
                 shown, removals>>

\* status_str = _("Suspicious") if detect else _("Clean")
StatusOf(detect) == IF Truthy(detect) THEN Suspicious ELSE Clean

\* for pkg_line in pkgs: pkg, detect and status_str of this line, and the
\* GetItemCount() that InsertItem's first argument evaluates.
worker_scan_loop(t) ==
  /\ scans[t].pc = "loop"
  /\ LET s == scans[t] IN
       IF s.k > Len(s.pkgs)
         THEN scans' = [scans EXCEPT ![t] = ScanEnded(s, "done")]
         ELSE LET pkg == removeprefix(s.pkgs[s.k], Marker)
                  detect == DictGet(SIG_DB, pkg)
              IN scans' = [scans EXCEPT ![t].pc = "insert", ![t].pkg = pkg,
                                        ![t].detect = detect,
                                        ![t].status_str = StatusOf(detect),
                                        ![t].count = GetItemCount(listctrl)]
  /\ UNCHANGED <<sig_file, module, SIG_DB, installed, listctrl, ui,
                 pending, shown, removals>>

\* idx = self.listctrl.InsertItem(<count>, pkg)
worker_scan_insert(t) ==
  /\ scans[t].pc = "insert"
  /\ LET r == InsertItem(listctrl, scans[t].count, scans[t].pkg) IN
       /\ listctrl' = r.rows
       /\ scans' = [scans EXCEPT ![t].pc = "set1", ![t].idx = r.idx]
  /\ UNCHANGED <<sig_file, module, SIG_DB, installed, ui, pending,
                 shown, removals>>

\* A call on a row that is no longer there: the control refuses it (the
\* call returns False and the worker goes on) or asserts (the exception
\* ends the worker thread).
MissingRow(t, goOn) ==
  /\ listctrl' = listctrl
  /\ \/ scans' = [scans EXCEPT ![t].pc = goOn]
     \/ scans' = [scans EXCEPT ![t] = ScanEnded(scans[t], "crashed")]

\* self.listctrl.SetItem(idx, 1, status_str)
worker_scan_set1(t) ==
  /\ scans[t].pc = "set1"
  /\ LET s == scans[t] IN
       IF HasItem(listctrl, s.idx)
         THEN /\ listctrl' = SetItem(listctrl, s.idx, 1, s.status_str)
              /\ scans' = [scans EXCEPT ![t].pc = "set2"]
         ELSE MissingRow(t, "set2")
  /\ UNCHANGED <<sig_file, module, SIG_DB, installed, ui, pending,
                 shown, removals>>

\* Where the loop body goes after SetItem(idx, 2, ...): `if detect:`.
AfterSet2(s) ==
  IF Truthy(s.detect) THEN [s EXCEPT !.pc = "colour"]
  ELSE [s EXCEPT !.pc = "loop", !.k = s.k + 1]

\* self.listctrl.SetItem(idx, 2, detect or "")
worker_scan_set2(t) ==
  /\ scans[t].pc = "set2"
  /\ LET s == scans[t] IN
       IF HasItem(listctrl, s.idx)
         THEN /\ listctrl' = SetItem(listctrl, s.idx, 2, PyOr(s.detect, ""))
              /\ scans' = [scans EXCEPT ![t] = AfterSet2(s)]
         ELSE /\ listctrl' = listctrl
              /\ \/ scans' = [scans EXCEPT ![t] = AfterSet2(s)]
                 \/ scans' = [scans EXCEPT ![t] = ScanEnded(s, "crashed")]
  /\ UNCHANGED <<sig_file, module, SIG_DB, installed, ui, pending,
                 shown, removals>>

\* self.listctrl.SetItemBackgroundColour(idx, wx.Colour(255, 230, 230))
worker_scan_colour(t) ==
  /\ scans[t].pc = "colour"
  /\ LET s == scans[t]
         on == [s EXCEPT !.pc = "loop", !.k = s.k + 1]
     IN IF HasItem(listctrl, s.idx)
          THEN /\ listctrl' = SetItemBackgroundColour(listctrl, s.idx, Pink)
               /\ scans' = [scans EXCEPT ![t] = on]
          ELSE /\ listctrl' = listctrl
               /\ \/ scans' = [scans EXCEPT ![t] = on]
                  \/ scans' = [scans EXCEPT ![t] = ScanEnded(s, "crashed")]
  /\ UNCHANGED <<sig_file, module, SIG_DB, installed, ui, pending,
                 shown, removals>>

\* One step of the scan worker thread t.
worker_scan(t) ==
  \/ worker_scan_get_phone(t)
  \/ worker_scan_adb_call(t)
  \/ worker_scan_adb_return(t)
  \/ worker_scan_loop(t)
  \/ worker_scan_insert(t)
  \/ worker_scan_set1(t)
  \/ worker_scan_set2(t)
  \/ worker_scan_colour(t)

\* ------------------------------------------------------------------------
\* on_remove, and the uninstall worker
\* ------------------------------------------------------------------------
\* AfterIdx with `if not sel: return` left out: an empty selection goes on
\* to the confirmation dialog.
AfterIdx_no_empty_check(sel, idx) ==
  IF idx # -1 THEN [pc |-> "text", sel |-> sel, idx |-> idx, answer |-> ""]
  ELSE [pc |-> "confirm", sel |-> sel, idx |-> idx, answer |-> ""]

\* The test of `while idx != -1`, then `if not sel: return`, then the
\* confirmation dialog opening.
AfterIdx(sel, idx) ==
  IF idx # -1 THEN [pc |-> "text", sel |-> sel, idx |-> idx, answer |-> ""]
  ELSE IF sel = <<>> THEN Idle
  ELSE [pc |-> "confirm", sel |-> sel, idx |-> idx, answer |-> ""]

\* The rows with exactly those at the positions in S selected.
Select(rows, S) == [i \in 1..Len(rows) |-> [rows[i] EXCEPT !.selected = i \in S]]

\* The user presses "Uninstall selected", having selected the rows at the
\* positions S by then; on_remove starts: sel = []
on_remove_begin ==
  /\ module = "loaded"
  /\ ui.pc = "idle"
  /\ Len(removals) < MaxRemovals
  /\ Live < MaxThreads
  /\ \E S \in SUBSET (1..Len(listctrl)) : listctrl' = Select(listctrl, S)
  /\ ui' = [pc |-> "first", sel |-> <<>>, idx |-> -1, answer |-> ""]
  /\ UNCHANGED <<sig_file, module, SIG_DB, installed, pending, shown,
                 scans, removals>>

\* idx = self.listctrl.GetFirstSelected()
on_remove_first ==
  /\ ui.pc = "first"
  /\ ui' = AfterIdx(ui.sel, GetNextSelected(listctrl, -1))
  /\ UNCHANGED <<sig_file, module, SIG_DB, installed, listctrl,
                 pending, shown, scans, removals>>

\* sel.append(self.listctrl.GetItemText(idx))
on_remove_text ==
  /\ ui.pc = "text"
  /\ ui' = [ui EXCEPT !.pc = "next",
                      !.sel = Append(@, GetItemText(listctrl, ui.idx))]
  /\ UNCHANGED <<sig_file, module, SIG_DB, installed, listctrl,
                 pending, shown, scans, removals>>

\* idx = self.listctrl.GetNextSelected(idx)
on_remove_next ==
  /\ ui.pc = "next"
  /\ ui' = AfterIdx(ui.sel, GetNextSelected(listctrl, ui.idx))
  /\ UNCHANGED <<sig_file, module, SIG_DB, installed, listctrl,
                 pending, shown, scans, removals>>

\* The user answers the confirmation dialog: wx.MessageBox(...) returns.
on_remove_answer ==
  /\ ui.pc = "confirm"
  /\ \E a \in {YES, NO} : ui' = [ui EXCEPT !.pc = "answered", !.answer = a]
  /\ UNCHANGED <<sig_file, module, SIG_DB, installed, listctrl,
                 pending, shown, scans, removals>>

\* on_remove_decide with the test of the answer left out: the worker starts
\* whatever the user answered.
on_remove_decide_unconfirmed ==
  /\ ui.pc = "answered"
  /\ removals' = Append(removals, NewRemoval(ui.sel))
  /\ ui' = Idle
  /\ UNCHANGED <<sig_file, module, SIG_DB, installed, listctrl,
                 pending, shown, scans>>

\* if wx.MessageBox(...) != wx.YES: return
\* Thread(target=self._worker_uninstall, args=(sel,), daemon=True).start()
on_remove_decide ==
  /\ ui.pc = "answered"
  /\ IF ui.answer # YES
       THEN removals' = removals
       ELSE removals' = Append(removals, NewRemoval(ui.sel))
  /\ ui' = Idle
  /\ UNCHANGED <<sig_file, module, SIG_DB, installed, listctrl,
                 pending, shown, scans>>

\* One step of the handler on_remove on the UI thread.
on_remove ==
  \/ on_remove_begin
  \/ on_remove_first
  \/ on_remove_text
  \/ on_remove_next
  \/ on_remove_answer
  \/ on_remove_decide

RemovalEnded(r) == [r EXCEPT !.pc = "done", !.cmd = NoCmd]

\* worker_uninstall_loop taking its packages from the rows selected in the
\* list at the time of each iteration, not from the batch it was given.
worker_uninstall_loop_live_selection(w) ==
  /\ removals[w].pc = "loop"
  /\ LET r == removals[w]
         cur == SelectSeq(listctrl, LAMBDA row : row.selected)
     IN
       IF r.i <= Len(cur)
         THEN /\ removals' = [removals EXCEPT
                   ![w].pc = "adb_wait",
                   ![w].cmd = UninstallArgs(cur[r.i].text),
                   ![w].issued = Append(@, UninstallArgs(cur[r.i].text))]
              /\ pending' = pending
         ELSE /\ removals' = [removals EXCEPT ![w] = RemovalEnded(r)]
              /\ pending' = Append(pending, "on_scan")
  /\ UNCHANGED <<sig_file, module, SIG_DB, installed, listctrl, ui,
                 shown, scans>>

\* worker_uninstall_loop asking for the refresh before its first uninstall
\* and not after the last.
worker_uninstall_loop_refresh_first(w) ==
  /\ removals[w].pc = "loop"
  /\ LET r == removals[w] IN
       IF r.i <= Len(r.pkgs)
         THEN /\ removals' = [removals EXCEPT
                   ![w].pc = "adb_wait",
                   ![w].cmd = UninstallArgs(r.pkgs[r.i]),
                   ![w].issued = Append(@, UninstallArgs(r.pkgs[r.i]))]
              /\ pending' = IF r.i = 1 THEN Append(pending, "on_scan")
                                       ELSE pending
         ELSE /\ removals' = [removals EXCEPT ![w] = RemovalEnded(r)]
              /\ pending' = pending
  /\ UNCHANGED <<sig_file, module, SIG_DB, installed, listctrl, ui,
                 shown, scans>>

\* for p in pkgs: adb("shell", "pm", "uninstall", "--user", "0", p): the
\* command goes out; after the last one: wx.CallAfter(self.on_scan, None).
worker_uninstall_loop(w) ==
  /\ removals[w].pc = "loop"
  /\ LET r == removals[w] IN
       IF r.i <= Len(r.pkgs)
         THEN /\ removals' = [removals EXCEPT
                   ![w].pc = "adb_wait",
                   ![w].cmd = UninstallArgs(r.pkgs[r.i]),
                   ![w].issued = Append(@, UninstallArgs(r.pkgs[r.i]))]
              /\ pending' = pending
         ELSE /\ removals' = [removals EXCEPT ![w] = RemovalEnded(r)]
              /\ pending' = Append(pending, "on_scan")
  /\ UNCHANGED <<sig_file, module, SIG_DB, installed, listctrl, ui,
                 shown, scans>>

\* worker_uninstall_adb_return with a failed uninstall ending the loop (as
\* a check of the result that raises would): the rest of the batch is not
\* attempted and no refresh is requested.
worker_uninstall_adb_return_abort(w) ==
  /\ removals[w].pc = "adb_wait"
  /\ \E ok \in ChannelOutcomes :
       LET r == adb(removals[w].cmd, installed, ok) IN
         /\ removals' = IF r.returncode # 0
              THEN [removals EXCEPT ![w].pc = "crashed", ![w].cmd = NoCmd]
              ELSE [removals EXCEPT ![w].pc = "loop", ![w].cmd = NoCmd,
                                    ![w].i = @ + 1]
         /\ installed' = r.installed
  /\ UNCHANGED <<sig_file, module, SIG_DB, listctrl, ui, pending,
                 shown, scans>>

\* ... the command completes; its result is dropped.
worker_uninstall_adb_return(w) ==
  /\ removals[w].pc = "adb_wait"
  /\ \E ok \in ChannelOutcomes :
       LET r == adb(removals[w].cmd, installed, ok) IN
         /\ removals' = [removals EXCEPT ![w].pc = "loop", ![w].cmd = NoCmd,
                                         ![w].i = @ + 1]
         /\ installed' = r.installed
  /\ UNCHANGED <<sig_file, module, SIG_DB, listctrl, ui, pending,
                 shown, scans>>

\* One step of the uninstall worker thread w.
worker_uninstall(w) ==
  \/ worker_uninstall_loop(w)
  \/ worker_uninstall_adb_return(w)

\* ------------------------------------------------------------------------
\* The UI thread's event loop
\* ------------------------------------------------------------------------
\* The event loop runs what wx.CallAfter queued, oldest first; it also runs
\* while the confirmation dialog of on_remove is open.
CallAfterDispatch ==
  /\ ui.pc \in {"idle", "confirm"}
  /\ pending # <<>>
  /\ pending' = Tail(pending)
  /\ IF Head(pending) = "on_scan"
       THEN on_scan(None) /\ shown' = shown
       ELSE shown' = shown + 1 /\ UNCHANGED <<listctrl, scans>>
  /\ UNCHANGED <<sig_file, module, SIG_DB, installed, ui, removals>>

ScanIds == DOMAIN scans
RemovalIds == DOMAIN removals
ScansInFlight == {t \in ScanIds : scans[t].pc \notin Ended}

Next ==
  \/ ImportModule
  \/ ClickScan
  \/ \E t \in DOMAIN scans : worker_scan(t)
  \/ on_remove
  \/ \E w \in DOMAIN removals : worker_uninstall(w)
  \/ CallAfterDispatch

Spec == Init /\ [][Next]_vars

\* The runs in which no scan is requested while a scan worker is in flight:
\* the user waits for a scan to end before pressing Scan, and the refresh
\* after a removal finds no scan running.
SerialClickScan == ScansInFlight = {} /\ ClickScan

SerialCallAfterDispatch == ScansInFlight = {} /\ CallAfterDispatch

NextSerial ==
  \/ ImportModule
  \/ SerialClickScan
  \/ \E t \in DOMAIN scans : worker_scan(t)
  \/ on_remove
  \/ \E w \in DOMAIN removals : worker_uninstall(w)
  \/ SerialCallAfterDispatch

SerialSpec == Init /\ [][NextSerial]_vars

\* The scans by the argument on_scan was called with.
ButtonScans == {t \in ScanIds : scans[t].evt = ButtonEvent}
RefreshScans == {t \in ScanIds : scans[t].evt = None}

\* The runs in which every thread that can take a step takes it in the end.
\* MaxScans bounds the scans of a run; here the Scan button leaves one of
\* them to the refresh of each removal, so that the bound never stands in
\* the way of a refresh.
LiveClickScan ==
  /\ Cardinality(ButtonScans) < MaxScans - MaxRemovals
  /\ ClickScan

NextLive ==
  \/ ImportModule
  \/ LiveClickScan
  \/ \E t \in DOMAIN scans : worker_scan(t)
  \/ on_remove
  \/ \E w \in DOMAIN removals : worker_uninstall(w)
  \/ CallAfterDispatch

\* Worker threads run until they return; the UI thread runs a handler until
\* it returns or waits for the user. The calls queued by wx.CallAfter are
\* taken in turn between the handlers of the event loop, so that a queued
\* call that can run again and again does run, however often the user
\* starts a handler in between. The user is under no obligation: pressing a
\* button or answering the dialog may never happen.
Fairness ==
  /\ \A t \in 1..MaxScans : WF_vars(t \in DOMAIN scans /\ worker_scan(t))
  /\ \A w \in 1..MaxRemovals :
       WF_vars(w \in DOMAIN removals /\ worker_uninstall(w))
  /\ WF_vars(on_remove_first \/ on_remove_text \/ on_remove_next
               \/ on_remove_decide)
  /\ SF_vars(CallAfterDispatch)

LiveSpec == Init /\ [][NextLive]_vars /\ Fairness

\* ------------------------------------------------------------------------
\* Properties
\* ------------------------------------------------------------------------
\* The threads with a device command issued and not yet completed.
ScansOnChannel == {t \in ScanIds : scans[t].pc = "adb_wait"}
RemovalsOnChannel == {w \in RemovalIds : removals[w].pc = "adb_wait"}
\* The positions of the scan worker at which pkg, detect and status_str
\* hold the record of the current line.
RecordPcs == {"insert", "set1", "set2", "colour"}
\* Row i of the list has had its Status and its Detection cell written.
FullyWritten(i) == listctrl[i].written = {1, 2}

\* C1: at most one scan worker is in flight at any time.
C1_AtMostOneScanInFlight == Cardinality(ScansInFlight) <= 1

\* C2: the record a scan worker builds for a line has status Suspicious if
\* and only if its package identifier is a key of the signature store.
C2_SuspiciousIffKey ==
  \A t \in ScanIds :
    scans[t].pc \in RecordPcs =>
      (scans[t].status_str = Suspicious <=> scans[t].pkg \in DOMAIN SIG_DB)

\* C3: every fully written row of the result list has a non-empty
\* Detection cell if and only if its Status cell is Suspicious.
C3_DescriptionIffSuspicious ==
  \A i \in 1..Len(listctrl) :
    FullyWritten(i) =>
      (listctrl[i].detect # "" <=> listctrl[i].status = Suspicious)

\* The step in which scan worker t learns that its scan failed: get_phone()
\* gave no device, or the enumeration came back with a non-zero exit code.
ScanFails(t) ==
  \/ scans[t].pc = "get_phone" /\ scans'[t].pc = "done"
  \/ scans[t].pc = "adb_wait" /\ scans'[t].pc = "loop" /\ scans'[t].rc # 0

\* C4: when a scan fails, the result list holds what it held when that scan
\* was requested.
C4_FailedScanKeepsList ==
  [][\A t \in ScanIds : ScanFails(t) => listctrl' = scans[t].before]_vars

\* C5: a scan worker that finds no device ends in that step: it queues the
\* no-device message box for the UI thread, has issued no device command,
\* leaves the list and the device alone, and never takes another step.
C5_NoDeviceShortCircuits ==
  [][\A t \in ScanIds :
       /\ (scans[t].pc = "get_phone" /\ scans'[t].pc # "get_phone"
             /\ ~scans'[t].phone) =>
            /\ scans'[t].pc = "done"
            /\ scans'[t].issued = <<>>
            /\ pending' = Append(pending, "MessageBox")
            /\ listctrl' = listctrl
            /\ installed' = installed
       /\ (scans[t].pc = "done" /\ ~scans[t].phone) =>
            scans'[t] = scans[t] /\ scans[t].issued = <<>>]_vars

\* A worker has ended on a missing device and its message box was shown.
C5_Witness ==
  \E t \in ScanIds :
    scans[t].pc = "done" /\ ~scans[t].phone /\ shown > 0

\* C6: at most one device command is being issued at any time.
C6_OneCommandAtATime ==
  Cardinality(ScansOnChannel) + Cardinality(RemovalsOnChannel) <= 1

\* The uninstall commands of the first n packages of a batch, in order.
UninstallsOf(pkgs, n) == [j \in 1..n |-> UninstallArgs(pkgs[j])]

\* C7: an uninstall worker issues one uninstall per package of its batch,
\* in the order of the batch, and ends only after the last one, whatever
\* the earlier uninstalls returned.
C7_EveryPackageAttempted ==
  \A w \in RemovalIds :
    LET r == removals[w] IN
      /\ r.pc = "loop" => r.issued = UninstallsOf(r.pkgs, r.i - 1)
      /\ r.pc = "adb_wait" => r.issued = UninstallsOf(r.pkgs, r.i)
      /\ r.pc \in Ended => r.issued = UninstallsOf(r.pkgs, Len(r.pkgs))

\* A batch of two has ended although the uninstall of its first package
\* failed (the package is still installed).
C7_Witness ==
  \E w \in RemovalIds :
    /\ removals[w].pc = "done"
    /\ Len(removals[w].pkgs) = 2
    /\ removals[w].pkgs[1] \in Range(installed)
    /\ removals[w].pkgs[1] # removals[w].pkgs[2]

\* The commands of `issued` are uninstalls of packages of `pkgs`.
OnlyUninstallsOf(issued, pkgs) ==
  \A j \in 1..Len(issued) : \E p \in Range(pkgs) : issued[j] = UninstallArgs(p)

\* C8: an uninstall worker starts only in the step that follows a Yes to
\* the confirmation dialog, with the batch the dialog showed; any other
\* answer starts no worker and issues no command; and the only uninstall
\* commands issued are those of such a worker, for packages of its batch.
C8_UninstallOnlyAfterYes ==
  [][/\ removals' # removals /\ Len(removals') # Len(removals) =>
          /\ ui.pc = "answered" /\ ui.answer = YES /\ ui.sel # <<>>
          /\ removals' = Append(removals, NewRemoval(ui.sel))
     /\ (ui.pc = "answered" /\ ui.answer # YES /\ ui' # ui) =>
          /\ removals' = removals /\ scans' = scans
          /\ installed' = installed /\ pending' = pending
     /\ \A w \in RemovalIds :
          /\ removals'[w].pkgs = removals[w].pkgs
          /\ OnlyUninstallsOf(removals'[w].issued, removals[w].pkgs)
     /\ \A t \in ScanIds :
          \A j \in 1..Len(scans'[t].issued) : scans'[t].issued[j] = ListArgs
    ]_vars

\* A confirmed batch has had an uninstall issued.
C8_Witness ==
  \E w \in RemovalIds :
    removals[w].issued # <<>> /\ removals[w].pkgs[1] \notin Range(installed)

\* C9: on_remove on an empty selection returns from its first read: no
\* dialog opens, no worker starts, nothing is queued for the UI thread and
\* no command reaches the device; a dialog is open, and a batch runs, only
\* on a non-empty selection.
C9_EmptySelectionRejected ==
  [][/\ (ui.pc = "first" /\ ui' # ui /\ GetNextSelected(listctrl, -1) = -1) =>
          /\ ui' = Idle
          /\ removals' = removals /\ scans' = scans /\ pending' = pending
          /\ installed' = installed /\ listctrl' = listctrl
     /\ ui'.pc \in {"confirm", "answered"} => ui'.sel # <<>>
     /\ \A w \in DOMAIN removals' : removals'[w].pkgs # <<>>
    ]_vars

\* on_remove is about to read the selection of a list with rows, none of
\* them selected.
C9_Witness ==
  ui.pc = "first" /\ listctrl # <<>> /\ GetNextSelected(listctrl, -1) = -1

\* C10: once the import is over, a signature file that could not be loaded
\* has left the module loaded with an empty mapping, and no scan worker
\* computes a status other than Clean.
C10_LoadFailureDegrades ==
  (module # "importing" /\ sig_file.kind # "object") =>
    /\ module = "loaded"
    /\ SIG_DB = EmptyDb
    /\ \A t \in ScanIds :
         scans[t].pc \in RecordPcs => scans[t].status_str = Clean

\* The Package column of the list, read top to bottom.
Texts(rows) == [i \in 1..Len(rows) |-> rows[i].text]

\* s is t with some of its elements left out.
IsSubsequence(s, t) ==
  \E f \in [1..Len(s) -> 1..Len(t)] :
    /\ \A i \in 1..Len(s) : s[i] = t[f[i]]
    /\ \A i, j \in 1..Len(s) : i < j => f[i] < f[j]

\* C11: whenever no scan worker is in flight, the Package column read top
\* to bottom is in the order of one enumeration of the device: the packages
\* the device started with, some of them left out, none of them repeated.
C11_ListInEnumerationOrder ==
  ScansInFlight = {} => IsSubsequence(Texts(listctrl), InstalledAtStart)

\* The outcomes a removal batch may report for a package.
OutcomeKinds == {"Removed", "Failed", "NotFound"}

\* C12: a removal worker that has ended holds, to report to the user, one
\* outcome per package of its batch, in the order of the batch, each of
\* them Removed, Failed or NotFound.
C12_OutcomePerPackage ==
  \A w \in RemovalIds :
    LET r == removals[w] IN
      r.pc \in Ended =>
        /\ Len(r.outcomes) = Len(r.pkgs)
        /\ \A j \in 1..Len(r.outcomes) : r.outcomes[j] \in OutcomeKinds

\* The Package, Status and Detection cells of the rows.
Cells(rows) ==
  [i \in 1..Len(rows) |-> <<rows[i].text, rows[i].status, rows[i].detect>>]

\* The package identifiers of enumerated lines, each without its marker.
IdsOf(lines) == [i \in 1..Len(lines) |-> Tail(lines[i])]

\* The elements of a sequence with their multiplicities.
BagOf(s) == [x \in Range(s) |-> Cardinality({i \in 1..Len(s) : s[i] = x})]

\* C17: whenever no scan worker is in flight and the most recently
\* requested scan has returned, the rows of the list are the rows of that
\* scan: one per line it enumerated, and no others.
C17_LatestScanOnly ==
  (ScansInFlight = {} /\ scans # <<>> /\ scans[Len(scans)].pc = "done") =>
    BagOf(Texts(listctrl)) = BagOf(IdsOf(scans[Len(scans)].pkgs))

\* C18: while the UI thread reads the list in on_remove, every row of the
\* list has its Status and Detection cells written.
C18_UiSeesWholeRecords ==
  ui.pc \in {"first", "text", "next"} =>
    \A i \in 1..Len(listctrl) : FullyWritten(i)

\* The scan workers whose scan has failed: no device, or an enumeration
\* that came back with a non-zero exit code.
FailedScans ==
  {t \in ScanIds : \/ scans[t].pc \in Ended /\ ~scans[t].phone
                   \/ scans[t].rc # 0}

\* C19: every failed scan has queued one error message for the UI thread
\* (pending or shown), and a scan whose enumeration failed has no line to
\* make a row of.
C19_EnumerationFailureReported ==
  /\ Cardinality(FailedScans) =
       shown + Cardinality({j \in 1..Len(pending) : pending[j] = "MessageBox"})
  /\ \A t \in ScanIds : scans[t].rc # 0 => scans[t].pkgs = <<>>

\* The packages some uninstall worker has issued an uninstall for.
UninstallIssuedFor ==
  {p \in Pkgs : \E w \in RemovalIds :
                  UninstallArgs(p) \in Range(removals[w].issued)}

\* C15: the only command a scan worker issues, or has on the channel, is
\* the package listing; a package the device started with is missing only
\* if an uninstall worker issued its uninstall, so that as long as only
\* scans have run the device holds what it held at the start.
C15_ScanLeavesDeviceAlone ==
  /\ \A t \in ScanIds :
       /\ Range(scans[t].issued) \subseteq {ListArgs}
       /\ scans[t].cmd \in {NoCmd, ListArgs}
  /\ Range(InstalledAtStart) \ Range(installed) \subseteq UninstallIssuedFor
  /\ removals = <<>> => installed = InstalledAtStart

\* Two scans have enumerated the device and returned, and no removal ran.
C15_Witness ==
  /\ Cardinality({t \in ScanIds : /\ scans[t].pc = "done"
                                  /\ scans[t].issued = <<ListArgs>>
                                  /\ scans[t].rc = 0}) >= 2
  /\ removals = <<>>

\* C20: the uninstalls of a removal worker are those of the batch it was
\* started with, one per package and in its order, each of them the command
\* pm uninstall --user 0 of that package; once the worker has ended, the
\* packages it has uninstalled for are exactly those of the batch, whatever
\* the list holds by then; and no package outside the batches has left the
\* device.
C20_UninstallsTheConfirmedBatch ==
  /\ \A w \in RemovalIds :
       LET r == removals[w] IN
         /\ Len(r.issued) <= Len(r.pkgs)
         /\ \A j \in 1..Len(r.issued) :
              r.issued[j] =
                <<"shell", "pm", "uninstall", "--user", "0">> \o r.pkgs[j]
         /\ r.pc \in Ended => Len(r.issued) = Len(r.pkgs)
  /\ Range(InstalledAtStart) \ Range(installed) \subseteq
       UNION {Range(removals[w].pkgs) : w \in RemovalIds}

\* A batch of two has been run to its end although a scan requested after
\* the confirmation had emptied the list, and the refresh is yet to come.
C20_Witness ==
  \E w \in RemovalIds :
    /\ removals[w].pc = "done"
    /\ Len(removals[w].pkgs) = 2
    /\ listctrl = <<>>
    /\ "on_scan" \in Range(pending)

\* Scan t has enumerated the device and ends in this step.
ScanReturns(t) ==
  scans[t].pc = "loop" /\ scans'[t].pc = "done" /\ scans[t].rc = 0

\* Scan t has returned from an enumeration that succeeded.
ScanSucceeded(t) ==
  scans[t].pc = "done" /\ scans[t].phone /\ scans[t].rc = 0

\* C14: when a scan returns that was requested after the scan before it had
\* returned, and both enumerated the same lines, the cells of the list are
\* those the list held when the scan was requested, in the same order.
C14_ScanIdempotent ==
  [][\A t \in ScanIds :
       (/\ t > 1
        /\ ScanReturns(t)
        /\ ScanSucceeded(t - 1)
        /\ scans[t - 1].pkgs = scans[t].pkgs) =>
         Cells(listctrl') = Cells(scans[t].before)]_vars

\* Two scans, one after the other, have enumerated the same two packages
\* and returned.
C14_Witness ==
  /\ Len(scans) = 2
  /\ ScanSucceeded(1) /\ ScanSucceeded(2)
  /\ scans[1].pkgs = scans[2].pkgs
  /\ Len(scans[2].pkgs) = 2
  /\ Len(listctrl) = 2

\* The record of an enumerated line: Suspicious with the description of
\* the store where the store has the package identifier, Clean with an
\* empty description where it has not.
ReferenceRecord(line, db) ==
  LET id == Tail(line) IN
    IF id \in DOMAIN db THEN <<id, Suspicious, db[id]>>
                        ELSE <<id, Clean, "">>

\* C16: when a scan that ran alone has returned, the cells of the list are
\* the reference records of the lines it enumerated, one per line and in
\* their order.
C16_ScanEqualsReference ==
  (scans # <<>> /\ ScanSucceeded(Len(scans))) =>
    Cells(listctrl) =
      [i \in 1..Len(scans[Len(scans)].pkgs) |->
         ReferenceRecord(scans[Len(scans)].pkgs[i], SIG_DB)]

\* The refreshes asked for so far: those waiting for the UI thread and
\* those that have started their scan.
RefreshesRequested ==
  Cardinality({j \in 1..Len(pending) : pending[j] = "on_scan"})
    + Cardinality(RefreshScans)

\* The uninstall workers that have issued the uninstall of every package
\* of their batch and seen the last of them complete.
BatchesAttempted ==
  {w \in RemovalIds : /\ removals[w].pc = "done"
                      /\ Len(removals[w].issued) = Len(removals[w].pkgs)}

\* C13: no refresh is asked for before the uninstall worker that asks for
\* it has attempted every package of its batch, and the n-th confirmed
\* batch leads to an n-th scan started by a refresh, whether its uninstalls
\* succeed or fail.
C13_RefreshFollowsBatch ==
  /\ [](RefreshesRequested <= Cardinality(BatchesAttempted))
  /\ \A n \in 1..MaxRemovals :
       (Len(removals) >= n) ~> (Cardinality(RefreshScans) >= n)

\* The refresh scan of a batch whose first uninstall failed has started.
C13_Witness ==
  /\ RefreshScans # {}
  /\ \E w \in RemovalIds :
       /\ removals[w].pc = "done"
       /\ removals[w].pkgs[1] \in Range(installed)
=============================================================================
